---- MODULE Spec2Model ----
(***************************************************************************)
(* Verification model of the notebook "A reaction-diffusion model for      *)
(* pattern formation": the periodic 5-point Laplacian builder, the         *)
(* reaction functions f and g, and the time-stepping driver                *)
(* pattern_formation.                                                      *)
(*                                                                         *)
(* Floating-point values are modelled as exact rationals <<n, d>> with     *)
(* d > 0 in lowest terms, so that two rationals are equal exactly when     *)
(* their pairs are equal.                                                  *)
(***************************************************************************)
EXTENDS Integers, Sequences, FiniteSets, TLC

VARIABLES
    pc,          \* position of the cell being executed
    m, a, b,     \* grid size and domain bounds of the current call
    h,           \* grid spacing computed by the current function
    A,           \* the operator under construction / held by the driver
    A_periodic,  \* the wrap-around correction matrix of the builder
    i,           \* loop index of the builder's left/right loop
    grid, Lgrid, \* an m x m grid and the flattened result of A*grid
    T, delta, policy, inplace,   \* inputs of a driver run
    k, N, j, t, next_plot,       \* step size, step count, loop state
    u, v, U,     \* names bound to array buffers (buffer ids)
    heap,        \* buffer id -> contents
    sink,        \* what has been handed to the plotting calls
    alpha, beta, tau1, tau2, gamma,  \* reaction parameters (globals)
    ru, rv, fres, gres               \* arguments and results of f and g

vars == <<pc, m, a, b, h, A, A_periodic, i, grid, Lgrid,
          T, delta, policy, inplace, k, N, j, t, next_plot, u, v, U, heap,
          sink, alpha, beta, tau1, tau2, gamma, ru, rv, fres, gres>>

lapVars == <<m, a, b, h, A, A_periodic, i, grid, Lgrid>>
runVars == <<T, delta, policy, inplace, k, N, j, t, next_plot, u, v, U,
             heap, sink>>
reactVars == <<alpha, beta, tau1, tau2, gamma, ru, rv, fres, gres>>

\* Value of a variable that the executing cell does not use.
Unused == "unused"

----------------------------------------------------------------------------
(* Bounds of the model.                                                    *)

MaxM == 3       \* largest grid size of a standalone builder call
MaxB == 1       \* domain bounds a, b range over -MaxB .. MaxB
MaxVal == 1     \* largest cell value of a test grid
MaxRunM == 9    \* largest grid size of a driver run
MaxT == 25      \* largest time horizon of a driver run
MaxPar == 1     \* reaction parameters range over -MaxPar .. MaxPar

----------------------------------------------------------------------------
(* Exact rational arithmetic standing for Python floats.                   *)

Abs(x) == IF x < 0 THEN -x ELSE x

RECURSIVE GCD(_, _)
GCD(x, y) == IF y = 0 THEN x ELSE GCD(y, x % y)

Rat(n, d) ==
    LET g == GCD(Abs(n), Abs(d))
        s == IF d < 0 THEN -1 ELSE 1
    IN  <<(s * n) \div g, (s * d) \div g>>

Zero == <<0, 1>>
RAdd(x, y) == Rat(x[1] * y[2] + y[1] * x[2], x[2] * y[2])
RSub(x, y) == Rat(x[1] * y[2] - y[1] * x[2], x[2] * y[2])
RMul(x, y) == Rat(x[1] * y[1], x[2] * y[2])
RDiv(x, y) == Rat(x[1] * y[2], x[2] * y[1])
RLt(x, y) == x[1] * y[2] < y[1] * x[2]
RLe(x, y) == x[1] * y[2] <= y[1] * x[2]
RAbs(x) == <<Abs(x[1]), x[2]>>
RMax(x, y) == IF RLt(x, y) THEN y ELSE x

RECURSIVE RSum(_, _)
\* Sum of F[x] over the finite set S.
RSum(F, S) ==
    IF S = {} THEN Zero
    ELSE LET x == CHOOSE y \in S : TRUE
         IN  RAdd(F[x], RSum(F, S \ {x}))

----------------------------------------------------------------------------
(* Python list and numpy/scipy helpers used by the builder.                *)

RECURSIVE ListRep(_, _)
\* s * n for a Python list s.
ListRep(s, n) == IF n <= 0 THEN <<>> ELSE s \o ListRep(s, n - 1)

\* c * x for a scalar c and a vector x.
Scaled(c, x) == [p \in DOMAIN x |-> c * x[p]]

\* scipy.sparse.spdiags(data, diags, n, n): data[d][q] is placed in column q
\* of the diagonal with offset diags[d], i.e. at entry (q - diags[d], q).
\* Python column q is position q + 1 of the TLA+ sequence.
spdiags(data, diags, n) ==
    [p \in 0 .. n - 1 |-> [q \in 0 .. n - 1 |->
        IF \E d \in DOMAIN diags : diags[d] = q - p
        THEN LET d == CHOOSE d \in DOMAIN diags : diags[d] = q - p
             IN  data[d][q + 1]
        ELSE 0]]

\* M[p, q] = x on a list-of-lists matrix.
SetItem(M, p, q, x) == [M EXCEPT ![p][q] = x]

\* Elementwise sum of two matrices of the same shape.
MatAdd(X, Y) == [p \in DOMAIN X |-> [q \in DOMAIN X[p] |-> X[p][q] + Y[p][q]]]

\* X / s for an integer matrix X and a rational scalar s.
MatDivScalar(X, s) ==
    [p \in DOMAIN X |-> [q \in DOMAIN X[p] |-> RDiv(<<X[p][q], 1>>, s)]]

\* X.todia(): the diagonals that hold a nonzero entry, each stored as a
\* full-length vector indexed by column.
todia(X) ==
    LET n == Cardinality(DOMAIN X)
        offs == {q - p : <<p, q>> \in {pq \in (0 .. n - 1) \X (0 .. n - 1) :
                                           X[pq[1]][pq[2]] # Zero}}
    IN  [n |-> n,
         offsets |-> offs,
         data |-> [d \in offs |-> [q \in 0 .. n - 1 |->
                     IF q - d \in 0 .. n - 1 THEN X[q - d][q] ELSE Zero]]]

\* Entry (p, q) of a matrix in diagonal format.
DiaEntry(D, p, q) ==
    IF q - p \in D.offsets THEN D.data[q - p][q] ELSE Zero

\* D * x for a matrix in diagonal format and a flat integer vector x.
MatVec(D, x) ==
    [p \in 0 .. D.n - 1 |->
        LET cols == {q \in 0 .. D.n - 1 : q - p \in D.offsets}
        IN  RSum([q \in cols |-> RMul(D.data[q - p][q], <<x[q], 1>>)], cols)]

\* X.reshape(-1) of an m x m array (row-major), as a flat vector 0 .. m*m-1.
Flatten(X, mm) == [p \in 0 .. mm * mm - 1 |-> X[p \div mm][p % mm]]

----------------------------------------------------------------------------
(* five_pt_laplacian_sparse_periodic(m, a, b), statement by statement.     *)

e(mm) == ListRep(<<1>>, mm * mm)
\* Variant of e2 without the zeros that cut the band at the block ends.
e2_uncut(mm) == ListRep(<<1>>, mm * mm)
e2(mm) == ListRep(ListRep(<<1>>, mm - 1) \o <<0>>, mm)
e3(mm) == ListRep(<<0>> \o ListRep(<<1>>, mm - 1), mm)

\* h=(b-a)/(m+1)
BuilderH(mm, aa, bb) == Rat(bb - aa, mm + 1)

\* A=scipy.sparse.spdiags([-4*e,e2,e3,e,e],[0,-1,1,-m,m],m**2,m**2)
Bands(mm) ==
    spdiags(<<Scaled(-4, e(mm)), e2(mm), e3(mm), e(mm), e(mm)>>,
            <<0, -1, 1, -mm, mm>>, mm * mm)

\* Variant of TopBottom that links the last grid row to the first only.
TopBottom_oneway(mm) == spdiags(<<e(mm)>>, <<mm - mm * mm>>, mm * mm)
\* A_periodic = scipy.sparse.spdiags([e,e],[m-m**2,m**2-m],m**2,m**2).tolil()
TopBottom(mm) ==
    spdiags(<<e(mm), e(mm)>>, <<mm - mm * mm, mm * mm - mm>>, mm * mm)

\* Variant of LoopBody that sets only the first of the two entries.
LoopBody_oneway(Ap, mm, ii) == SetItem(Ap, ii * mm, (ii + 1) * mm - 1, 1)
\* One iteration of the left/right loop.
LoopBody(Ap, mm, ii) ==
    SetItem(SetItem(Ap, ii * mm, (ii + 1) * mm - 1, 1),
            (ii + 1) * mm - 1, ii * mm, 1)

RECURSIVE LeftRight(_, _, _)
\* The whole loop "for i in range(m)", from iteration ii on.
LeftRight(Ap, mm, ii) ==
    IF ii >= mm THEN Ap ELSE LeftRight(LoopBody(Ap, mm, ii), mm, ii + 1)

\* The complete function, as the driver calls it.
five_pt_laplacian_sparse_periodic(mm, aa, bb) ==
    LET hh == BuilderH(mm, aa, bb)
        A0 == Bands(mm)
        Ap == LeftRight(TopBottom(mm), mm, 0)
        A1 == MatAdd(A0, Ap)
        A2 == MatDivScalar(A1, RMul(hh, hh))
    IN  todia(A2)

----------------------------------------------------------------------------
(* Specification SpecLap: a cell calls the builder on (m, a, b) and        *)
(* applies the returned operator to a grid.  Calls with m < 2 or a = b end *)
(* inside scipy (duplicate diagonals, division by h**2 = 0) and are not    *)
(* inputs of the model; calls with a > b are.                              *)

Cells(mm) == (0 .. mm - 1) \X (0 .. mm - 1)

\* Test grids: a constant background with one cell raised, and skewed ramps.
Impulse(mm, c0, c1, cell) ==
    [r \in 0 .. mm - 1 |-> [c \in 0 .. mm - 1 |->
        IF <<r, c>> = cell THEN c0 + c1 ELSE c0]]
Ramp(mm, c0, c1) ==
    [r \in 0 .. mm - 1 |-> [c \in 0 .. mm - 1 |->
        (c0 * r + c1 * c + r * c) % (MaxVal + 2)]]
Grids(mm) ==
    {Impulse(mm, c0, c1, cell) : c0 \in 0 .. MaxVal, c1 \in 0 .. MaxVal,
                                 cell \in Cells(mm)}
    \cup {Ramp(mm, c0, c1) : c0 \in 0 .. MaxVal, c1 \in 0 .. MaxVal}

InitLap ==
    /\ pc = "lap_call"
    /\ m \in 2 .. MaxM
    /\ a \in -MaxB .. MaxB
    /\ b \in -MaxB .. MaxB
    /\ a # b
    /\ h = Unused /\ A = Unused /\ A_periodic = Unused /\ i = Unused
    /\ grid = Unused /\ Lgrid = Unused
    /\ T = Unused /\ delta = Unused /\ policy = Unused /\ inplace = Unused
    /\ k = Unused /\ N = Unused /\ j = Unused /\ t = Unused
    /\ next_plot = Unused /\ u = Unused /\ v = Unused /\ U = Unused
    /\ heap = Unused /\ sink = Unused
    /\ alpha = Unused /\ beta = Unused /\ tau1 = Unused /\ tau2 = Unused
    /\ gamma = Unused /\ ru = Unused /\ rv = Unused
    /\ fres = Unused /\ gres = Unused

\* Lines 98-102: the band vectors, h and the banded matrix.
LapBands ==
    /\ pc = "lap_call"
    /\ h' = BuilderH(m, a, b)
    /\ A' = Bands(m)
    /\ pc' = "lap_periodic"
    /\ UNCHANGED <<m, a, b, A_periodic, i, grid, Lgrid>>
    /\ UNCHANGED <<runVars, reactVars>>

\* Line 104: the top/bottom wrap-around entries.
LapTopBottom ==
    /\ pc = "lap_periodic"
    /\ A_periodic' = TopBottom(m)
    /\ i' = 0
    /\ pc' = "lap_loop"
    /\ UNCHANGED <<m, a, b, h, A, grid, Lgrid>>
    /\ UNCHANGED <<runVars, reactVars>>

\* Lines 106-108: one iteration of the left/right loop.
LapLoop ==
    /\ pc = "lap_loop"
    /\ i < m
    /\ A_periodic' = LoopBody(A_periodic, m, i)
    /\ i' = i + 1
    /\ UNCHANGED <<pc, m, a, b, h, A, grid, Lgrid>>
    /\ UNCHANGED <<runVars, reactVars>>

\* Lines 109-112: sum, scale by 1/h**2, convert and return.
LapFinish ==
    /\ pc = "lap_loop"
    /\ i >= m
    /\ A' = todia(MatDivScalar(MatAdd(A, A_periodic), RMul(h, h)))
    /\ pc' = "lap_returned"
    /\ UNCHANGED <<m, a, b, h, A_periodic, i, grid, Lgrid>>
    /\ UNCHANGED <<runVars, reactVars>>

\* The caller applies the returned operator to a flattened grid.
LapApply ==
    /\ pc = "lap_returned"
    /\ \E G \in Grids(m) :
          /\ grid' = G
          /\ Lgrid' = MatVec(A, Flatten(G, m))
    /\ pc' = "lap_applied"
    /\ UNCHANGED <<m, a, b, h, A, A_periodic, i>>
    /\ UNCHANGED <<runVars, reactVars>>

NextLap == LapBands \/ LapTopBottom \/ LapLoop \/ LapFinish \/ LapApply

SpecLap == InitLap /\ [][NextLap]_vars

----------------------------------------------------------------------------
(* Properties of the builder.                                              *)

idx(mm, r, c) == r * mm + c

\* The unscaled periodic 5-point stencil of grid G at cell (r, c).
Stencil(G, mm, r, c) ==
    G[(r - 1) % mm][c] + G[(r + 1) % mm][c]
    + G[r][(c - 1) % mm] + G[r][(c + 1) % mm] - 4 * G[r][c]

\* The cell itself and its four periodically wrapped neighbours.
Neighbours(mm, r, c) ==
    {idx(mm, r, c), idx(mm, (r - 1) % mm, c), idx(mm, (r + 1) % mm, c),
     idx(mm, r, (c - 1) % mm), idx(mm, r, (c + 1) % mm)}

NonZeros(D, p) == {q \in 0 .. D.n - 1 : DiaEntry(D, p, q) # Zero}
RowSum(D, p) ==
    RSum([q \in 0 .. D.n - 1 |-> DiaEntry(D, p, q)], 0 .. D.n - 1)

LapReturned == pc \in {"lap_returned", "lap_applied"}
IsConstant(G) == \A r, c \in DOMAIN G : G[r][c] = G[0][0]

\* C1: for m >= 2 and a < b, (L*U)[idx(i,j)] is the wrapped 5-point stencil
\* of U at (i,j) divided by h^2 with h = (b-a)/m.
C1_StencilWithSpecH ==
    (pc = "lap_applied" /\ a < b) =>
        \A cell \in Cells(m) :
            Lgrid[idx(m, cell[1], cell[2])]
              = RDiv(<<Stencil(grid, m, cell[1], cell[2]), 1>>,
                     RMul(Rat(b - a, m), Rat(b - a, m)))

\* C2: every row of the operator sums to 0, and the operator maps a
\* constant grid to the zero vector.
C2_ConstantToZero ==
    /\ LapReturned => \A p \in 0 .. m * m - 1 : RowSum(A, p) = Zero
    /\ (pc = "lap_applied" /\ IsConstant(grid)) =>
           \A p \in 0 .. m * m - 1 : Lgrid[p] = Zero

C2_Witness ==
    /\ pc = "lap_applied" /\ m >= 3 /\ a < b
    /\ IsConstant(grid) /\ grid[0][0] # 0

\* C3: the operator equals its transpose, wrap-around entries included.
C3_Symmetric ==
    LapReturned =>
        \A p, q \in 0 .. m * m - 1 : DiaEntry(A, p, q) = DiaEntry(A, q, p)

C3_Witness ==
    /\ pc = "lap_returned" /\ m >= 3
    /\ DiaEntry(A, 0, m - 1) # Zero
    /\ DiaEntry(A, 0, m * m - m) # Zero

\* C9 as stated: for every m >= 2 each row has exactly 5 nonzero entries,
\* at the cell and its four wrapped neighbours.
C9_FiveNonZeros ==
    LapReturned =>
        \A cell \in Cells(m) :
            /\ NonZeros(A, idx(m, cell[1], cell[2]))
                 = Neighbours(m, cell[1], cell[2])
            /\ Cardinality(NonZeros(A, idx(m, cell[1], cell[2]))) = 5

\* C9 amended: for every m >= 3 each row has exactly 5 nonzero entries, at
\* the cell and its four wrapped neighbours.
C9_FiveNonZerosFromThree ==
    (LapReturned /\ m >= 3) =>
        \A cell \in Cells(m) :
            /\ NonZeros(A, idx(m, cell[1], cell[2]))
                 = Neighbours(m, cell[1], cell[2])
            /\ Cardinality(NonZeros(A, idx(m, cell[1], cell[2]))) = 5

C9_Witness ==
    /\ pc = "lap_returned" /\ m >= 3
    /\ Cardinality(NonZeros(A, 0)) = 5
    /\ m * m - m \in NonZeros(A, 0)

----------------------------------------------------------------------------
(* The driver pattern_formation(m, T).                                     *)

\* Values the notebook assigns to the global delta (lines 65, 171, 336-341).
DeltaValues == {Rat(45, 10000), Rat(21, 10000), Rat(5, 10000), Rat(1, 10000)}

D1 == Rat(1, 2)
D2 == Rat(1, 1)

\* Python 2 round(): to the nearest integer, halves away from zero.
PyRound(x) ==
    IF x[1] >= 0 THEN (2 * x[1] + x[2]) \div (2 * x[2])
    ELSE -((2 * (-x[1]) + x[2]) \div (2 * x[2]))

\* The two definitions of step_size; the cell run last decides which is live.
step_size_explicit(hh, dd) == RDiv(RMul(hh, hh), RMul(<<5, 1>>, dd))
step_size_imex(hh, dd) == RDiv(hh, RMul(<<10, 1>>, dd))
step_size(pol, hh, dd) ==
    IF pol = "explicit" THEN step_size_explicit(hh, dd)
    ELSE step_size_imex(hh, dd)

\* Variant of StepCount that truncates instead of rounding.
StepCount_trunc(TT, kk) == (TT * kk[2]) \div kk[1]
\* N = int(round(T/k))
StepCount(TT, kk) == PyRound(RDiv(<<TT, 1>>, kk))

\* Variant of Advance that assigns the step instead of accumulating it.
Advance_assign(tt, kk) == kk
\* t = t+k
Advance(tt, kk) == RAdd(tt, kk)

\* Variant of PlotDue that waits for a whole interval past next_plot.
PlotDue_late(tt, np) == RLe(<<np + 5, 1>>, tt)
\* if t>next_plot
PlotDue(tt, np) == RLt(<<np, 1>>, tt)

\* Array contents are tracked by origin: <<"u", n>> is the u field after n
\* steps from the random initial data.
InitialData(name) == <<name, 0>>

\* one_step has no body in the notebook; it is modelled from the written
\* scheme as the map from the n-th to the (n+1)-th field.
one_step(content) == <<content[1], content[2] + 1>>

NoTitle == "no title"
Snapshots == SelectSeq(sink, LAMBDA s : s.title # NoTitle)

InitRun ==
    /\ pc = "run_call"
    /\ m \in 2 .. MaxRunM
    /\ T \in -1 .. MaxT
    /\ delta \in DeltaValues
    /\ policy \in {"explicit", "imex"}
    /\ inplace \in BOOLEAN
    /\ a = Unused /\ b = Unused
    /\ h = Unused /\ A = Unused /\ A_periodic = Unused /\ i = Unused
    /\ grid = Unused /\ Lgrid = Unused
    /\ k = Unused /\ N = Unused /\ j = Unused /\ t = Unused
    /\ next_plot = Unused /\ u = Unused /\ v = Unused /\ U = Unused
    /\ heap = Unused /\ sink = Unused
    /\ alpha = Unused /\ beta = Unused /\ tau1 = Unused /\ tau2 = Unused
    /\ gamma = Unused /\ ru = Unused /\ rv = Unused
    /\ fres = Unused /\ gres = Unused

\* Lines 179-208: grid, initial data, first plot, operator, step size.
RunSetup ==
    /\ pc = "run_call"
    /\ a' = -1
    /\ b' = 1
    /\ h' = Rat(b' - a', m)
    /\ u' = 1
    /\ v' = 2
    /\ heap' = (1 :> InitialData("u")) @@ (2 :> InitialData("v"))
    /\ sink' = <<[title |-> NoTitle, buf |-> 1, seen |-> InitialData("u")]>>
    /\ A' = five_pt_laplacian_sparse_periodic(m, -1, 1)
    /\ t' = Zero
    /\ k' = step_size(policy, h', delta)
    /\ N' = StepCount(T, k')
    /\ next_plot' = 0
    /\ j' = 0
    /\ pc' = "run_loop"
    /\ UNCHANGED <<m, A_periodic, i, grid, Lgrid, T, delta, policy, inplace, U>>
    /\ UNCHANGED reactVars

\* Lines 209-228: one iteration of the time loop.  A step either returns
\* new arrays or updates its arguments in place; u.reshape((m,m)) is a view
\* of the buffer of u.
RunStep ==
    /\ pc = "run_loop"
    /\ j < N
    /\ LET fresh == Cardinality(DOMAIN heap) + 1
           un == IF inplace THEN u ELSE fresh
           vn == IF inplace THEN v ELSE fresh + 1
           hp == [id \in DOMAIN heap \cup {un, vn} |->
                     IF id = un THEN one_step(heap[u])
                     ELSE IF id = vn THEN one_step(heap[v])
                     ELSE heap[id]]
           tn == Advance(t, k)
       IN  /\ u' = un
           /\ v' = vn
           /\ heap' = hp
           /\ t' = tn
           /\ IF PlotDue(tn, next_plot)
              THEN /\ next_plot' = next_plot + 5
                   /\ U' = un
                   /\ sink' = Append(sink, [title |-> tn, buf |-> un,
                                            seen |-> hp[un]])
              ELSE UNCHANGED <<next_plot, U, sink>>
    /\ j' = j + 1
    /\ UNCHANGED <<pc, m, a, b, h, A, A_periodic, i, grid, Lgrid, T, delta,
                   policy, inplace, k, N>>
    /\ UNCHANGED reactVars

\* The loop is exhausted and the function returns.
RunReturn ==
    /\ pc = "run_loop"
    /\ j >= N
    /\ pc' = "run_returned"
    /\ UNCHANGED <<lapVars, runVars, reactVars>>

NextRun == RunSetup \/ RunStep \/ RunReturn

SpecRun == InitRun /\ [][NextRun]_vars

----------------------------------------------------------------------------
(* Properties of the driver.                                               *)

InRun == pc \in {"run_loop", "run_returned"}

\* C4 as stated: a completed run with T > 0 has emitted at least floor(T/5)
\* snapshots, under either step-size policy.
C4_SnapshotCount ==
    (pc = "run_returned" /\ T > 0) => Len(Snapshots) >= T \div 5

\* C4 amended: a completed run with T > 0 whose step size k does not exceed
\* the snapshot interval 5 has emitted at least floor(T/5) snapshots, under
\* either step-size policy.
C4_SnapshotCountSmallStep ==
    (pc = "run_returned" /\ T > 0 /\ RLe(k, <<5, 1>>)) =>
        Len(Snapshots) >= T \div 5

C4_Witness ==
    /\ pc = "run_returned" /\ T >= 20 /\ RLe(k, <<5, 1>>)
    /\ policy = "imex"
    /\ Len(Snapshots) >= 4

\* C5, state part: after step j the time is t = j*k; the loop ends only
\* after N = round(T/k) steps, and then t is less than one step from T.
C5_TimeOfStep ==
    (InRun /\ T > 0) =>
        /\ t = RMul(<<j, 1>>, k)
        /\ j <= N
        /\ pc = "run_returned" =>
              /\ j = N
              /\ RLe(RMul(<<2, 1>>, RAbs(RSub(<<T, 1>>, RMul(<<N, 1>>, k)))), k)
              /\ RLt(RAbs(RSub(<<T, 1>>, t)), k)

\* C5, step part: every step of the loop strictly increases t.
C5_TimeIncreases ==
    (pc = "run_loop" /\ T > 0 /\ j' # j) => RLt(t, t')

\* C5: a run with T > 0 performs exactly N = round(T/k) steps, t = j*k after
\* step j, t strictly increases, and the final time is within k of T.
C5_StepsAndTime == [](C5_TimeOfStep) /\ [][C5_TimeIncreases]_vars

C5_Witness == pc = "run_returned" /\ T > 0 /\ j >= 3 /\ j = N

\* C7: every snapshot handed to the plotting calls of the loop is an
\* independent copy: it shares no buffer with the live u, and its contents
\* are still those it had when it was delivered.
C7_SnapshotIsCopy ==
    (InRun /\ T > 0) =>
        \A s \in 1 .. Len(Snapshots) :
            /\ Snapshots[s].buf # u
            /\ heap[Snapshots[s].buf] = Snapshots[s].seen

\* The grid spacing by which the operator held by the driver is scaled,
\* squared: the diagonal entry of the operator is -4/hL^2.
OperatorH2(D) == RDiv(<<-4, 1>>, DiaEntry(D, 0, 0))

\* C10: the explicit step size k = h^2/(5*delta) does not exceed the
\* stability limit hL^2/(4*delta*max(D1,D2)) of the operator of the run.
C10_StableStep ==
    (InRun /\ T > 0 /\ policy = "explicit") =>
        RLe(k, RDiv(OperatorH2(A),
                    RMul(<<4, 1>>, RMul(delta, RMax(D1, D2)))))

\* C6: an invalid configuration never yields a normal return: the builder
\* returns only for m >= 2 and a < b, and a run returns only for T > 0.
C6_InvalidRejected ==
    /\ LapReturned => (m >= 2 /\ a < b)
    /\ pc = "run_returned" => T > 0

----------------------------------------------------------------------------
(* The reaction functions f and g (lines 67-71), on scalar arguments.      *)

Returned(x) == [raised |-> "none", value |-> x]
Raised(err) == [raised |-> err, value |-> Zero]

One == <<1, 1>>

\* alpha*u*(1-tau1*v**2) + v*(1-tau2*u)
f(al, t1, t2, uu, vv) ==
    Returned(RAdd(RMul(RMul(al, uu), RSub(One, RMul(t1, RMul(vv, vv)))),
                  RMul(vv, RSub(One, RMul(t2, uu)))))

\* beta*v*(1+alpha*tau1/beta*u*v) + u*(gamma+tau2*v); the quotient
\* alpha*tau1/beta of two Python floats raises when beta is zero.
g(al, be, t1, t2, ga, uu, vv) ==
    IF be = Zero THEN Raised("ZeroDivisionError")
    ELSE Returned(
           RAdd(RMul(RMul(be, vv),
                     RAdd(One, RMul(RMul(RDiv(RMul(al, t1), be), uu), vv))),
                RMul(uu, RAdd(ga, RMul(t2, vv)))))

Params == {<<n, 1>> : n \in -MaxPar .. MaxPar}
Args == {<<n, 1>> : n \in -MaxVal .. MaxVal}

InitReact ==
    /\ pc = "react_call"
    /\ alpha \in Params /\ beta \in Params /\ tau1 \in Params
    /\ tau2 \in Params /\ gamma \in Params
    /\ ru \in Args /\ rv \in Args
    /\ fres = Unused /\ gres = Unused
    /\ m = Unused /\ a = Unused /\ b = Unused
    /\ h = Unused /\ A = Unused /\ A_periodic = Unused /\ i = Unused
    /\ grid = Unused /\ Lgrid = Unused
    /\ T = Unused /\ delta = Unused /\ policy = Unused /\ inplace = Unused
    /\ k = Unused /\ N = Unused /\ j = Unused /\ t = Unused
    /\ next_plot = Unused /\ u = Unused /\ v = Unused /\ U = Unused
    /\ heap = Unused /\ sink = Unused

EvalF ==
    /\ pc = "react_call"
    /\ fres' = f(alpha, tau1, tau2, ru, rv)
    /\ pc' = "react_f"
    /\ UNCHANGED <<alpha, beta, tau1, tau2, gamma, ru, rv, gres>>
    /\ UNCHANGED <<lapVars, runVars>>

EvalG ==
    /\ pc = "react_f"
    /\ gres' = g(alpha, beta, tau1, tau2, gamma, ru, rv)
    /\ pc' = "react_g"
    /\ UNCHANGED <<alpha, beta, tau1, tau2, gamma, ru, rv, fres>>
    /\ UNCHANGED <<lapVars, runVars>>

NextReact == EvalF \/ EvalG

SpecReact == InitReact /\ [][NextReact]_vars

\* C8: for every choice of alpha, beta, tau1, tau2, gamma, zero included,
\* f(0,0) and g(0,0) evaluate without error and both equal 0.
C8_VanishAtOrigin ==
    (ru = Zero /\ rv = Zero) =>
        /\ pc \in {"react_f", "react_g"} => fres = Returned(Zero)
        /\ pc = "react_g" => gres = Returned(Zero)

====
